---- MODULE Spec2Model ----
(***************************************************************************)
(* Model of the pizza bot (src/app.py): the Model Client (GeminiService),  *)
(* the Conversation Manager (ChattyUI) and the program's entry point.      *)
(*                                                                         *)
(* Text is a sequence of one-character strings, so that str.strip(),       *)
(* str.lower() and += on strings are computed and not assumed.  The two    *)
(* persona literals are one-element sequences holding the literal's name.  *)
(*                                                                         *)
(* Two specifications share the state:                                     *)
(*   Spec     the program run from `__main__` (construction, the           *)
(*            interactive loop, the final report);                         *)
(*   SpecApi  a caller that holds a constructed ChattyUI and calls         *)
(*            answer() and clear_history() in any order.                   *)
(* The hosted provider is the environment: for each request it chooses a   *)
(* finite stream of fragments, and the stream may break (an exception) or  *)
(* the user may interrupt (KeyboardInterrupt) at any point before the      *)
(* stream is exhausted.  KeyboardInterrupt is modelled at the two blocking *)
(* points of the program: input() and the in-flight request.               *)
(***************************************************************************)
EXTENDS Integers, Sequences, FiniteSets, TLC

VARIABLES
    pc,                     \* position of the single thread of control
    service,                \* Model Client: "Uninitialized" | "Ready" | "Failed"
    pizza_bot,              \* TRUE once `pizza_bot = ChattyUI()` is bound
    system_prompt,          \* ChattyUI.system_prompt
    system_prompt_response, \* ChattyUI.system_prompt_response
    chat_history,           \* ChattyUI.chat_history: sequence of <<user, bot>>
    raw_input,              \* the line the last input() returned
    message,                \* the argument of the current/last answer() call
    request,                \* the messages of the last request handed to the provider
    stream,                 \* fragments of response_stream not yet pulled
    arrived,                \* fragments pulled from response_stream so far
    response_text,          \* get_completion's accumulator
    printed,                \* fragments surfaced on the terminal for this request
    fate,                   \* outcome of the provider call: "none" | "inflight" | "ok" | "error" | "interrupt"
    ret,                    \* what answer() gave its caller: a value or a raised exception
    out,                    \* the last user-interface message printed
    report,                 \* the numbered list printed under FINAL CHAT HISTORY
    nin,                    \* lines read by input()
    nreq,                   \* requests made to the provider
    nOk,                    \* answer() calls that returned since the last clear_history()
    clearedLen              \* -1, or the Transcript length the last clear_history() dropped,
                            \* until the next entry is recorded

vars == <<pc, service, pizza_bot, system_prompt, system_prompt_response,
          chat_history, raw_input, message, request, stream, arrived,
          response_text, printed, fate, ret, out, report, nin, nreq, nOk,
          clearedLen>>

-----------------------------------------------------------------------------
(* Bounds *)

\* input() lines read in one run of the program
MaxInputs == 3

\* answer() calls made by the caller of SpecApi
MaxCalls == 3

-----------------------------------------------------------------------------
(* Text *)

Empty == <<>>

SYSTEM_PROMPT == <<"SYSTEM_PROMPT">>

MODEL_RESPONSE == <<"MODEL_RESPONSE">>

UpperLetters == <<"A","B","C","D","E","F","G","H","I","J","K","L","M",
                  "N","O","P","Q","R","S","T","U","V","W","X","Y","Z">>

LowerLetters == <<"a","b","c","d","e","f","g","h","i","j","k","l","m",
                  "n","o","p","q","r","s","t","u","v","w","x","y","z">>

Whitespace == {" ", "\t", "\n", "\r"}

LowerChar(c) ==
    IF \E i \in 1..Len(UpperLetters) : UpperLetters[i] = c
    THEN LowerLetters[CHOOSE i \in 1..Len(UpperLetters) : UpperLetters[i] = c]
    ELSE c

\* str.lower()
Lower_identity(s) == s

Lower(s) == [i \in 1..Len(s) |-> LowerChar(s[i])]

RECURSIVE LStrip(_)
LStrip(s) ==
    IF s # Empty /\ Head(s) \in Whitespace THEN LStrip(Tail(s)) ELSE s

RECURSIVE RStrip(_)
RStrip(s) ==
    IF s # Empty /\ s[Len(s)] \in Whitespace
    THEN RStrip(SubSeq(s, 1, Len(s) - 1))
    ELSE s

\* str.strip()
Strip_identity(s) == s

Strip(s) == RStrip(LStrip(s))

ExitTokens == { <<"q","u","i","t">>, <<"e","x","i","t">>,
                <<"b","y","e">>, <<"s","t","o","p">> }

-----------------------------------------------------------------------------
(* Inputs the environment draws from *)

\* lines typed at the prompt
RawInputs == { Empty,
               <<" ">>,
               <<" ","h","i","\t">>,
               <<"b","y">>,
               <<"Q","u","I","t">>,
               <<" ","b","y","e"," ">>,
               <<"E","X","I","T">>,
               <<"s","t","o","p">> }

\* messages a caller passes to answer()
Texts == { <<"h","i">>, <<"b","y">> }

\* response streams of the provider: sequences of chunk.text values
Streams == { <<>>,
             <<Empty>>,
             <<<<"o">>, Empty, <<"k">>>>,
             <<<<"k">>, <<"o">>>> }

-----------------------------------------------------------------------------
(* Message and the request *)

User == "user"

Model == "model"

\* Message.__init__: the object's fields (role, parts)
Message(role, content) == <<role, <<content>>>>

\* dataclasses.asdict
asdict(m) == [role |-> m[1], parts |-> m[2]]

RECURSIVE HistoryMessages(_)
HistoryMessages(h) ==
    IF h = <<>> THEN <<>>
    ELSE <<Message(User, Head(h)[1]), Message(Model, Head(h)[2])>>
         \o HistoryMessages(Tail(h))

BuildMessages_noPreamble(sp, spr, h) == HistoryMessages(h)

\* answer(): the message list built before the call of get_completion
BuildMessages(sp, spr, h) ==
    <<Message(User, sp), Message(Model, spr)>> \o HistoryMessages(h)

\* get_completion(): the chat is seeded with the history, then the new message is sent
SendRequest(messages, msg) ==
    [i \in 1..Len(messages) |-> asdict(messages[i])]
    \o <<[role |-> User, parts |-> <<msg>>]>>

Accumulate_replace(acc, text) == IF text # Empty THEN text ELSE acc

\* get_completion(): one turn of the loop over response_stream
Accumulate(acc, text) == IF text # Empty THEN acc \o text ELSE acc

Surface(shown, text) == IF text # Empty THEN Append(shown, text) ELSE shown

Commit_always(outcome, h, msg, response) == Append(h, <<msg, response>>)

Commit_swapped(outcome, h, msg, response) ==
    IF outcome = "ok" THEN Append(h, <<response, msg>>) ELSE h

\* answer(): the append runs only when get_completion returned
Commit(outcome, h, msg, response) ==
    IF outcome = "ok" THEN Append(h, <<msg, response>>) ELSE h

get_chat_history == chat_history

\* enumerate(history, start) with the two lines printed per entry
Enumerate(h, start) == [i \in 1..Len(h) |-> <<start + i - 1, h[i][1], h[i][2]>>]

NoReturn == [kind |-> "none", text |-> Empty]

Returned(text) == [kind |-> "value", text |-> text]

Raised(kind) == [kind |-> kind, text |-> Empty]

-----------------------------------------------------------------------------
(* Initial states *)

NoCall ==
    /\ message = Empty
    /\ request = <<>>
    /\ stream = <<>>
    /\ arrived = <<>>
    /\ response_text = Empty
    /\ printed = <<>>
    /\ fate = "none"
    /\ ret = NoReturn

\* the program before `pizza_bot = ChattyUI()`
InitMain ==
    /\ pc = "start"
    /\ service = "Uninitialized"
    /\ pizza_bot = FALSE
    /\ system_prompt = Empty
    /\ system_prompt_response = Empty
    /\ chat_history = <<>>
    /\ raw_input = Empty
    /\ NoCall
    /\ out = "none"
    /\ report = <<>>
    /\ nin = 0
    /\ nreq = 0
    /\ nOk = 0
    /\ clearedLen = -1

\* a ChattyUI right after its construction with the default persona
InitApi ==
    /\ pc = "idle"
    /\ service = "Ready"
    /\ pizza_bot = TRUE
    /\ system_prompt = SYSTEM_PROMPT
    /\ system_prompt_response = MODEL_RESPONSE
    /\ chat_history = <<>>
    /\ raw_input = Empty
    /\ NoCall
    /\ out = "none"
    /\ report = <<>>
    /\ nin = 0
    /\ nreq = 0
    /\ nOk = 0
    /\ clearedLen = -1

-----------------------------------------------------------------------------
(* ChattyUI.answer and GeminiService.get_completion *)

\* answer(msg) up to the point where the request is in flight
AnswerCall(msg) ==
    /\ message' = msg
    /\ request' = SendRequest(
                      BuildMessages(system_prompt, system_prompt_response, chat_history),
                      msg)
    /\ nreq' = nreq + 1
    /\ \E s \in Streams : stream' = s
    /\ arrived' = <<>>
    /\ response_text' = Empty
    /\ printed' = <<>>
    /\ fate' = "inflight"
    /\ ret' = NoReturn
    /\ pc' = "stream"
    /\ UNCHANGED <<service, pizza_bot, system_prompt, system_prompt_response,
                   chat_history, report, nOk, clearedLen>>

\* one chunk pulled from response_stream
Chunk ==
    /\ pc = "stream"
    /\ stream # <<>>
    /\ stream' = Tail(stream)
    /\ arrived' = Append(arrived, Head(stream))
    /\ response_text' = Accumulate(response_text, Head(stream))
    /\ printed' = Surface(printed, Head(stream))
    /\ UNCHANGED <<pc, service, pizza_bot, system_prompt, system_prompt_response,
                   chat_history, raw_input, message, request, fate, ret, out,
                   report, nin, nreq, nOk, clearedLen>>

\* the provider call ends with `outcome`; answer() commits or lets the exception through
AnswerEnd(outcome) ==
    /\ pc = "stream"
    /\ fate' = outcome
    /\ chat_history' = Commit(outcome, chat_history, message, response_text)
    /\ ret' = IF outcome = "ok" THEN Returned(response_text) ELSE Raised(outcome)
    /\ nOk' = IF outcome = "ok" THEN nOk + 1 ELSE nOk
    /\ clearedLen' = IF outcome = "ok" THEN -1 ELSE clearedLen
    /\ UNCHANGED <<service, pizza_bot, system_prompt, system_prompt_response,
                   raw_input, message, request, stream, arrived, response_text,
                   printed, report, nin, nreq>>

-----------------------------------------------------------------------------
(* SpecApi: a caller of the Conversation Manager *)

ApiAnswer ==
    /\ pc = "idle"
    /\ nreq < MaxCalls
    /\ \E msg \in Texts : AnswerCall(msg)
    /\ UNCHANGED <<raw_input, out, nin>>

\* the stream is exhausted: get_completion and answer return
ApiReturn ==
    /\ stream = <<>>
    /\ AnswerEnd("ok")
    /\ pc' = "idle"
    /\ UNCHANGED out

\* the stream breaks: the exception leaves answer()
ApiError ==
    /\ AnswerEnd("error")
    /\ pc' = "idle"
    /\ UNCHANGED out

\* KeyboardInterrupt during the request leaves answer()
ApiInterrupt ==
    /\ AnswerEnd("interrupt")
    /\ pc' = "idle"
    /\ UNCHANGED out

clear_history_keep ==
    /\ pc = "idle"
    /\ clearedLen' = Len(chat_history)
    /\ nOk' = 0
    /\ out' = "cleared"
    /\ UNCHANGED <<pc, service, pizza_bot, system_prompt, system_prompt_response,
                   chat_history, raw_input, message, request, stream, arrived,
                   response_text, printed, fate, ret, report, nin, nreq>>

clear_history ==
    /\ pc = "idle"
    /\ chat_history' = <<>>
    /\ clearedLen' = Len(chat_history)
    /\ nOk' = 0
    /\ out' = "cleared"
    /\ UNCHANGED <<pc, service, pizza_bot, system_prompt, system_prompt_response,
                   raw_input, message, request, stream, arrived, response_text,
                   printed, fate, ret, report, nin, nreq>>

NextApi ==
    \/ ApiAnswer
    \/ Chunk
    \/ ApiReturn
    \/ ApiError
    \/ ApiInterrupt
    \/ clear_history

SpecApi == InitApi /\ [][NextApi]_vars

-----------------------------------------------------------------------------
(* Spec: the program *)

\* ChattyUI() succeeds and start_chat() prints its banner
Construct ==
    /\ pc = "start"
    /\ service' = "Ready"
    /\ pizza_bot' = TRUE
    /\ system_prompt' = SYSTEM_PROMPT
    /\ system_prompt_response' = MODEL_RESPONSE
    /\ chat_history' = <<>>
    /\ out' = "welcome"
    /\ pc' = "prompt"
    /\ UNCHANGED <<raw_input, message, request, stream, arrived, response_text,
                   printed, fate, ret, report, nin, nreq, nOk, clearedLen>>

ConstructFails_swallowed ==
    /\ pc = "start"
    /\ service' = "Failed"
    /\ pizza_bot' = TRUE
    /\ system_prompt' = SYSTEM_PROMPT
    /\ system_prompt_response' = MODEL_RESPONSE
    /\ chat_history' = <<>>
    /\ out' = "init_error"
    /\ pc' = "prompt"
    /\ UNCHANGED <<raw_input, message, request, stream, arrived, response_text,
                   printed, fate, ret, report, nin, nreq, nOk, clearedLen>>

\* GeminiService.__init__ prints the error and re-raises; the program dies
ConstructFails ==
    /\ pc = "start"
    /\ service' = "Failed"
    /\ out' = "init_error"
    /\ pc' = "crashed"
    /\ UNCHANGED <<pizza_bot, system_prompt, system_prompt_response, chat_history,
                   raw_input, message, request, stream, arrived, response_text,
                   printed, fate, ret, report, nin, nreq, nOk, clearedLen>>

\* one turn of the loop from input() to the exit, the reprompt or the request
ReadInput ==
    /\ pc = "prompt"
    /\ nin < MaxInputs
    /\ \E raw \in RawInputs :
        LET user_input == Strip(raw) IN
        /\ raw_input' = raw
        /\ nin' = nin + 1
        /\ IF Lower(user_input) \in ExitTokens
           THEN /\ out' = "goodbye"
                /\ pc' = "report"
                /\ UNCHANGED <<service, pizza_bot, system_prompt,
                               system_prompt_response, chat_history, message,
                               request, stream, arrived, response_text, printed,
                               fate, ret, report, nreq, nOk, clearedLen>>
           ELSE IF user_input = Empty
           THEN /\ out' = "reprompt"
                /\ pc' = "prompt"
                /\ UNCHANGED <<service, pizza_bot, system_prompt,
                               system_prompt_response, chat_history, message,
                               request, stream, arrived, response_text, printed,
                               fate, ret, report, nreq, nOk, clearedLen>>
           ELSE /\ out' = "bot_prefix"
                /\ AnswerCall(user_input)

\* input() raises EOFError, which `except Exception` reports
ReadEOF ==
    /\ pc = "prompt"
    /\ out' = "error"
    /\ UNCHANGED <<pc, service, pizza_bot, system_prompt, system_prompt_response,
                   chat_history, raw_input, message, request, stream, arrived,
                   response_text, printed, fate, ret, report, nin, nreq, nOk,
                   clearedLen>>

\* KeyboardInterrupt at input()
PromptInterrupt ==
    /\ pc = "prompt"
    /\ out' = "interrupted"
    /\ pc' = "report"
    /\ UNCHANGED <<service, pizza_bot, system_prompt, system_prompt_response,
                   chat_history, raw_input, message, request, stream, arrived,
                   response_text, printed, fate, ret, report, nin, nreq, nOk,
                   clearedLen>>

\* answer() returns to the loop
TurnReturn ==
    /\ stream = <<>>
    /\ AnswerEnd("ok")
    /\ pc' = "prompt"
    /\ UNCHANGED out

TurnError_endsSession ==
    /\ AnswerEnd("error")
    /\ out' = "error"
    /\ pc' = "report"

\* `except Exception`: the error is printed and the loop goes on
TurnError ==
    /\ AnswerEnd("error")
    /\ out' = "error"
    /\ pc' = "prompt"

\* `except KeyboardInterrupt`: the loop is left
TurnInterrupt ==
    /\ AnswerEnd("interrupt")
    /\ out' = "interrupted"
    /\ pc' = "report"

\* the lines of `__main__` after start_chat()
FinalReport ==
    /\ pc = "report"
    /\ report' = Enumerate(get_chat_history, 1)
    /\ out' = "final_history"
    /\ pc' = "exit"
    /\ UNCHANGED <<service, pizza_bot, system_prompt, system_prompt_response,
                   chat_history, raw_input, message, request, stream, arrived,
                   response_text, printed, fate, ret, nin, nreq, nOk, clearedLen>>

Next ==
    \/ Construct
    \/ ConstructFails
    \/ ReadInput
    \/ ReadEOF
    \/ PromptInterrupt
    \/ Chunk
    \/ TurnReturn
    \/ TurnError
    \/ TurnInterrupt
    \/ FinalReport

Spec == InitMain /\ [][Next]_vars

-----------------------------------------------------------------------------
(* Properties *)

UserMsg(text) == [role |-> "user", parts |-> <<text>>]

ModelMsg(text) == [role |-> "model", parts |-> <<text>>]

RECURSIVE JoinAll(_)
JoinAll(fragments) ==
    IF fragments = <<>> THEN <<>>
    ELSE Head(fragments) \o JoinAll(Tail(fragments))

IsBlankLine(line) == \A i \in 1..Len(line) : line[i] \in {" ", "\t"}

\* the lines of RawInputs that are neither blank nor an exit word
AcceptedLines == { <<" ","h","i","\t">>, <<"b","y">> }

\* the lines of RawInputs that spell an exit word, in some letter case
ExitLines == { <<"Q","u","I","t">>, <<" ","b","y","e"," ">>,
               <<"E","X","I","T">>, <<"s","t","o","p">> }

\* C1: between two clear_history() calls the Transcript holds as many entries
\* as answer() calls have returned; the step in which a call returns appends
\* exactly the pair (message passed, reply returned) behind the entries
\* already there, and no other step but a clear changes the Transcript.
C1_TranscriptRecordsTurns ==
    /\ [](Len(get_chat_history) = nOk)
    /\ [][ /\ (nOk' = nOk + 1) =>
                /\ ret'.kind = "value"
                /\ get_chat_history' =
                       Append(get_chat_history, <<message, ret'.text>>)
           /\ (nOk' = nOk) => get_chat_history' = get_chat_history ]_vars

\* two different turns recorded, with a failed call among the three made
C1_Witness ==
    /\ pc = "idle"
    /\ nreq = 3
    /\ nOk = 2
    /\ Len(chat_history) = 2
    /\ chat_history[1][1] # chat_history[2][1]
    /\ chat_history[1][2] # chat_history[2][2]

\* C2: while a request is in flight with k Transcript entries, the request
\* is the two persona messages, then the k pairs as 2k messages alternating
\* user/model in order, then the new user message: 2k+3 messages.
C2_RequestPayload ==
    pc = "stream" =>
        LET k == Len(chat_history) IN
        /\ Len(request) = 2 * k + 3
        /\ request[1] = UserMsg(SYSTEM_PROMPT)
        /\ request[2] = ModelMsg(MODEL_RESPONSE)
        /\ \A i \in 1..k :
            /\ request[2 * i + 1] = UserMsg(chat_history[i][1])
            /\ request[2 * i + 2] = ModelMsg(chat_history[i][2])
        /\ request[2 * k + 3] = UserMsg(message)

\* the third turn's request: seven messages
C2_Witness ==
    /\ pc = "stream"
    /\ Len(chat_history) = 2
    /\ Len(request) = 7

\* C3: when the provider call ends by an error or by an interruption, the
\* Transcript after answer() is the Transcript before it and answer() raises
\* that failure to its caller.
C3_FailedCallLeavesTranscript ==
    [][ (fate = "inflight" /\ fate' \in {"error", "interrupt"}) =>
            /\ get_chat_history' = get_chat_history
            /\ ret'.kind = fate'
            /\ ret'.text = Empty ]_vars

\* a request that broke after a fragment had been streamed, entries recorded before
C3_Witness ==
    /\ fate = "error"
    /\ ret.kind = "error"
    /\ printed # <<>>
    /\ stream # <<>>
    /\ Len(chat_history) = 1

\* C4: a response stream that ends having yielded no text is an error to the
\* caller and not a returned reply, so no Transcript entry has an empty reply.
C4_EmptyResponseIsError ==
    /\ ( /\ fate \in {"ok", "error", "interrupt"}
         /\ stream = <<>>
         /\ \A i \in 1..Len(arrived) : arrived[i] = Empty )
       => ret.kind # "value"
    /\ \A i \in 1..Len(chat_history) : chat_history[i][2] # Empty

\* C5: after clear_history(), whatever the Transcript held, the Transcript is
\* empty and the persona is what it was; a request made before any new entry
\* is recorded is the two persona messages and the new user message.
C5_ClearHistory ==
    clearedLen >= 0 =>
        /\ get_chat_history = <<>>
        /\ system_prompt = SYSTEM_PROMPT
        /\ system_prompt_response = MODEL_RESPONSE
        /\ pc = "stream" =>
               request = <<UserMsg(SYSTEM_PROMPT), ModelMsg(MODEL_RESPONSE),
                           UserMsg(message)>>

\* a request in flight after a Transcript of two entries was cleared
C5_Witness ==
    /\ clearedLen = 2
    /\ pc = "stream"
    /\ Len(request) = 3

\* C6: a line read by the loop that is blank makes no request, leaves the
\* Transcript alone, prints the reprompt and leaves the loop at input().
C6_BlankInputIsRejected ==
    [][ (nin' = nin + 1 /\ IsBlankLine(raw_input')) =>
            /\ nreq' = nreq
            /\ request' = request
            /\ fate' = fate
            /\ chat_history' = chat_history
            /\ out' = "reprompt"
            /\ pc' = "prompt" ]_vars

\* a line of one space was rejected after a turn had been recorded
C6_Witness ==
    /\ raw_input = <<" ">>
    /\ out = "reprompt"
    /\ pc = "prompt"
    /\ Len(chat_history) = 1
    /\ nreq = 1

\* C7: when a turn's request ends by an error, the loop prints the error,
\* stays in the session at input(), and makes no further request for that
\* line; a request is made only by reading an accepted line, one per line;
\* and a turn whose request completes is recorded and the loop goes on.
C7_FailedTurnContinues ==
    [][ /\ (fate = "inflight" /\ fate' = "error") =>
                /\ out' = "error"
                /\ pc' = "prompt"
                /\ nreq' = nreq
                /\ chat_history' = chat_history
                /\ report' = report
        /\ (nreq' # nreq) =>
                /\ nreq' = nreq + 1
                /\ nin' = nin + 1
                /\ raw_input' \in AcceptedLines
        /\ (nin' = nin + 1 /\ raw_input' \in AcceptedLines) => nreq' = nreq + 1
        /\ (fate = "inflight" /\ fate' = "ok") =>
                /\ Len(chat_history') = Len(chat_history) + 1
                /\ pc' = "prompt" ]_vars

\* the second turn failed mid-stream after the first was recorded; the loop is at input()
C7_Witness ==
    /\ fate = "error"
    /\ out = "error"
    /\ pc = "prompt"
    /\ printed # <<>>
    /\ nreq = 2
    /\ Len(chat_history) = 1

\* C8: when the Model Client's construction fails, the error has been
\* printed, the program has died with the exception, no ChattyUI exists, no
\* line was read and no request was made.
C8_InitFailureIsFatal ==
    service = "Failed" =>
        /\ pc = "crashed"
        /\ out = "init_error"
        /\ ~pizza_bot
        /\ nin = 0
        /\ nreq = 0
        /\ fate = "none"
        /\ report = <<>>

C8_Witness ==
    /\ service = "Failed"
    /\ out = "init_error"

\* C9: an exit word in any letter case ends the loop without a request; so
\* does an interruption at input() or during a request; once the loop is
\* left no line is read, no request is made and the Transcript is fixed; and
\* the final report is the Transcript's entries in order, numbered from 1.
C9_SessionEndReportsTranscript ==
    /\ [](pc = "exit" =>
            /\ Len(report) = Len(chat_history)
            /\ \A i \in 1..Len(report) :
                   report[i] = <<i, chat_history[i][1], chat_history[i][2]>>)
    /\ [][ /\ (nin' = nin + 1 /\ raw_input' \in ExitLines) =>
                /\ pc' = "report"
                /\ nreq' = nreq
                /\ chat_history' = chat_history
           /\ (fate = "inflight" /\ fate' = "interrupt") =>
                /\ pc' = "report"
                /\ chat_history' = chat_history
           /\ (pc = "prompt" /\ out' = "interrupted") => pc' = "report"
           /\ (pc \in {"report", "exit"}) =>
                /\ pc' = "exit"
                /\ nin' = nin
                /\ nreq' = nreq
                /\ chat_history' = chat_history ]_vars

\* the session was ended by EXIT after two recorded turns and the report printed
C9_Witness ==
    /\ pc = "exit"
    /\ raw_input = <<"E","X","I","T">>
    /\ Len(report) = 2
    /\ report[2][1] = 2

\* C10: when the stream was delivered completely, the returned text is the
\* concatenation of every fragment pulled, in arrival order; when the stream
\* broke or was interrupted, no text is returned.
C10_ReturnIsJoinedFragments ==
    /\ fate = "ok" =>
            /\ stream = <<>>
            /\ ret = [kind |-> "value", text |-> JoinAll(arrived)]
    /\ fate \in {"error", "interrupt"} => (ret.kind # "value" /\ ret.text = Empty)

\* three fragments, one of them empty, joined to "ok"; two were shown
C10_Witness ==
    /\ fate = "ok"
    /\ Len(arrived) = 3
    /\ Len(printed) = 2
    /\ ret.text = <<"o", "k">>

====
